---- MODULE Spec2Model ----
(***************************************************************************)
(* Model of the TidyBee agent (src/src/lib.rs): the hub connect/retry      *)
(* task spawned by run() and the file-event consumer loop that drives the  *)
(* metadata store (my_files) and the rule engine (tidy_algo).              *)
(***************************************************************************)
EXTENDS Integers, Sequences, FiniteSets, TLC

\* ------------------------------------------------------------------ bounds
\* hub connection attempts explored
MaxAttempts == 6
\* largest configured connection_attempt_limit explored
MaxLimit == 4

\* ------------------------------------------------------- program constants
\* let mut timeout = 5;
InitialTimeout == 5

\* ------------------------------------------------------ bounds (pipeline)
\* distinct paths under the watched directories
MaxPaths == 2
\* distinct file contents
MaxContent == 2
\* distinct modification timestamps
MaxTime == 2
\* notifications waiting on the watcher channel
MaxQueue == 2
\* notifications sent by the watcher in one run, on top of the records the
\* startup listing left: from TrackedStart every notification is handled
\* over a store of MaxPaths records
MaxEvents == 2
\* filesystem changes made before the watcher runs
MaxMissed == 1

\* largest number_of_files a query asks for
MaxN == 3

Paths == 1..MaxPaths
\* the query-API request followed by the model
Readers == {"get_files"}
Contents == 1..MaxContent
Times == 1..MaxTime

VARIABLES
    hubpc,                     \* position of the retry task: "sleep" | "connect" | "done"
    timeout,                   \* the local `timeout` of the retry task
    waits,                     \* sequence of sleeps performed so far (seconds)
    results,                   \* outcome of each hub_client.connect() so far
    hubReachable,              \* whether the remote hub currently accepts registrations
    connection_attempt_limit,  \* HubConfig.connection_attempt_limit
    fs,                        \* the watched directories: path -> <<>> (absent) or <<file>>
    db,                        \* my_files: the rows of the store, in insertion order
    queue,                     \* file_watcher_receiver: notifications not yet handled
    sent,                      \* number of notifications the watcher has sent
    lastEvent,                 \* <<>> or <<ev>>: the notification handled last
    calls,                     \* store calls made while handling lastEvent, in order
    pending,                   \* <<>> or <<p>>: the consumer is between the two store
                               \*   calls of a modify handler, update_grade(p) comes next
    panicked,                  \* the consumer loop unwound with a panic
    backendReliable,           \* the persistence backend never fails in this run
    rpc,                       \* per query-API request: "idle" | "waiting" | "locked" |
                               \*   "queried" | "responded"
    snapshot,                  \* per request: the rows get_all_files_from_db returned
    window,                    \* per request: every row the store held while the read ran
    response,                  \* <<>> or <<r>>: the last get_files response sent
    mutex,                     \* the Mutex around the query API's MyFiles instance
    stage,                     \* position of run() in StartupOrder
    sub,                       \* position inside the listing / grading loops
    todo,                      \* files (listing) or paths (grading) still to go
    startCalls,                \* store calls made by the startup phase, in order
    my_files_builder,          \* <<>> or <<b>>: the MyFilesBuilder of run()
    pipeStore,                 \* <<>> or <<i>>: the MyFiles instance of the pipeline
    apiStore,                  \* <<>> or <<i>>: the MyFiles instance behind the query API
    buildCalls,                \* the builders build() has been called on
    missed,                    \* filesystem changes made while no watcher was running
    srvconf,                   \* the query server's implementation and configured address
    srvpc,                     \* the server task: "unspawned" | "spawned" | "resolved" |
                               \*   "serving" | "returned" | "panicked"
    listenAddr                 \* <<>> or <<a>>: the socket address the server settled on

hubvars == <<hubpc, timeout, waits, results, hubReachable, connection_attempt_limit>>
pipevars == <<fs, db, queue, sent, lastEvent, calls, pending, panicked, backendReliable>>
apivars == <<rpc, snapshot, window, response, mutex>>
startvars ==
    <<stage, sub, todo, startCalls, my_files_builder, pipeStore, apiStore, buildCalls, missed>>
srvvars == <<srvconf, srvpc, listenAddr>>
vars == <<hubvars, pipevars, apivars, startvars, srvvars>>

\* ------------------------------------------------------------ startup order
\* lib.rs:58-123  the steps of run() before the consumer loop, in program order:
\* builder configured and sealed (58-60), store built and initialised
\* (62-65), list_directories (77),
\* update_all_grades (78), ServerBuilder..build (80-88), server task spawned
\* (94-96), hub retry task spawned (99-114), watcher thread spawned (116-122).
StartupOrder_ServerFirst ==
    << "builder", "store", "build_server", "spawn_server", "list", "grade",
       "spawn_hub", "spawn_watcher" >>

StartupOrder ==
    << "builder", "store", "list", "grade", "build_server", "spawn_server",
       "spawn_hub", "spawn_watcher" >>

AtStage(name) == stage <= Len(StartupOrder) /\ StartupOrder[stage] = name
StageDone(name) == \E i \in 1..(stage - 1) : StartupOrder[i] = name

\* lib.rs:124  run() has reached its consumer loop.
ConsumerRunning == stage > Len(StartupOrder)

\* ------------------------------------------------------------ hub retry task
HubInit ==
    /\ hubpc = "sleep"
    /\ timeout = InitialTimeout
    /\ waits = <<>>
    /\ results = <<>>
    /\ hubReachable \in BOOLEAN
    /\ connection_attempt_limit \in 1..MaxLimit

\* Hub::connect(): one registration call; Ok iff the hub accepts it.
HubConnect(reachable) == IF reachable THEN "Ok" ELSE "Err"

\* lib.rs:103-112  `if let Err(..) = connect().await { log; } else { break; }  timeout *= 2;`
\* `timeout` is a u64: the doubling first overflows after 62 failed attempts
\* (5 * 2^62 >= 2^64), far beyond MaxAttempts, so no width is applied here.
AfterConnect_BreakAlways(res, t) == [pc |-> "done", timeout |-> t]
AfterConnect(res, t) ==
    IF res = "Err"
    THEN [pc |-> "sleep", timeout |-> t * 2]
    ELSE [pc |-> "done", timeout |-> t]

\* lib.rs:102  tokio::time::sleep(Duration::from_secs(timeout)).await
SleepDuration(t) == t

HubSleep ==
    /\ StageDone("spawn_hub")
    /\ hubpc = "sleep"
    /\ Len(results) < MaxAttempts
    /\ waits' = Append(waits, SleepDuration(timeout))
    /\ hubpc' = "connect"
    /\ UNCHANGED <<timeout, results, hubReachable, connection_attempt_limit>>
    /\ UNCHANGED <<pipevars, apivars, startvars, srvvars>>

HubAttempt ==
    /\ StageDone("spawn_hub")
    /\ hubpc = "connect"
    /\ LET res == HubConnect(hubReachable)
           nxt == AfterConnect(res, timeout)
       IN /\ results' = Append(results, res)
          /\ hubpc' = nxt.pc
          /\ timeout' = nxt.timeout
    /\ UNCHANGED <<waits, hubReachable, connection_attempt_limit>>
    /\ UNCHANGED <<pipevars, apivars, startvars, srvvars>>

\* The remote hub goes up or down (environment).
HubToggle ==
    /\ hubReachable' = ~hubReachable
    /\ UNCHANGED <<hubpc, timeout, waits, results, connection_attempt_limit>>
    /\ UNCHANGED <<pipevars, apivars, startvars, srvvars>>

HubNext == HubSleep \/ HubAttempt \/ HubToggle

\* Hub Client state (spec section 3), as seen from the retry loop.
AgentConnectionState ==
    IF hubpc = "done" THEN "Connected"
    ELSE IF waits = <<>> THEN "Disconnected"
    ELSE "Connecting"

\* ------------------------------------------------------ hub task: properties
AllFailed == \A i \in 1..Len(results) : results[i] = "Err"
FailsTwiceThenSucceeds == hubpc = "done" /\ results = <<"Err", "Err", "Ok">>

\* C1: against a hub that fails attempts 1 and 2 and succeeds on attempt 3, the
\* loop makes three attempts, the waits that precede the 3rd attempt are t0
\* and then 2*t0, and it ends Connected.  (The loop of lib.rs:100-112 sleeps at
\* the top of every iteration, so the waits recorded before the 3rd attempt
\* are t0, 2*t0 and 4*t0.)
C1_Original ==
    FailsTwiceThenSucceeds =>
        /\ Len(results) = 3
        /\ waits = <<InitialTimeout, 2 * InitialTimeout>>
        /\ AgentConnectionState = "Connected"

\* C2: against a hub that fails every attempt, with a configured
\* connection_attempt_limit of N, the retry loop stops after exactly N
\* attempts: it never makes an (N+1)-th attempt.
C2_StopsAtLimit ==
    AllFailed => Len(results) <= connection_attempt_limit

\* C3: once a connection attempt succeeds the retry loop has terminated and
\* performs no further attempt or backoff wait; every failed attempt sends the
\* loop back to sleep-and-retry, and that next attempt is eventually made.
C3_StopsOnlyOnSuccess ==
    /\ [][ /\ hubpc = "done" =>
                 (hubpc' = "done" /\ waits' = waits /\ results' = results)
           /\ Len(results') = Len(results) + 1 =>
                 (hubpc' = (IF results'[Len(results')] = "Ok" THEN "done" ELSE "sleep"))
           /\ hubpc' = "done" => results'[Len(results')] = "Ok" ]_vars
    /\ \A k \in 1..(MaxAttempts - 1) :
          (Len(results) = k /\ results[k] = "Err") ~> (Len(results) = k + 1)

C3_Witness == hubpc = "done" /\ Len(results) >= 2 /\ results[1] = "Err"

\* -------------------------------------------------- file event pipeline

\* ---------------------------------------------------------------- file_info
\* Length in bytes and content hash of a file content.
SizeOf(c) == c
SignatureOf(c) == (c * 31 + 7) % 11

Exists(f, p) == f[p] # <<>>

Existing(f) == { p \in Paths : Exists(f, p) }

\* file_info::create_file_info: Some(FileInfo) when the metadata can be read.
create_file_info(f, p) ==
    IF Exists(f, p)
    THEN << [path |-> p,
             size |-> SizeOf(f[p][1].content),
             content_signature |-> SignatureOf(f[p][1].content),
             last_modified |-> f[p][1].mtime,
             tidy_score |-> <<>>] >>
    ELSE <<>>

\* file_info::get_last_access: Err when the file cannot be read.
get_last_access(f, p) == IF Exists(f, p) THEN <<f[p][1].mtime>> ELSE <<>>

\* file_info::get_file_signature
get_file_signature(f, p) == IF Exists(f, p) THEN SignatureOf(f[p][1].content) ELSE 0

\* -------------------------------------------------------------- rule engine
RuleSet ==
    << [kind |-> "min_size", arg |-> 2, weight |-> 1],
       [kind |-> "modified_after", arg |-> 2, weight |-> 2] >>

Satisfied(rule, rec) ==
    IF rule.kind = "min_size" THEN rec.size >= rule.arg
    ELSE IF rule.kind = "modified_after" THEN rec.last_modified >= rule.arg
    ELSE FALSE

RECURSIVE SumWeights(_, _, _)
SumWeights(rules, rec, i) ==
    IF i > Len(rules) THEN 0
    ELSE (IF Satisfied(rules[i], rec) THEN rules[i].weight ELSE 0)
         + SumWeights(rules, rec, i + 1)

\* evaluate(file_attributes, rule_set) -> Score
Evaluate(rec, rules) == SumWeights(rules, rec, 1)

\* ----------------------------------------------------------- metadata store
\* Every store operation returns the new rows and the result of the call.
\* `ok` is FALSE when the persistence backend fails (I/O, lock contention).
HasPath(rows, p) == \E i \in 1..Len(rows) : rows[i].path = p
IndexOf(rows, p) == CHOOSE i \in 1..Len(rows) : rows[i].path = p
PathsOf(rows) == { rows[i].path : i \in 1..Len(rows) }
RowsAt(rows, p) == { i \in 1..Len(rows) : rows[i].path = p }
RecordOf(rows, p) == rows[IndexOf(rows, p)]
Rows(rows) == { rows[i] : i \in 1..Len(rows) }

add_file_to_db(rows, rec, ok) ==
    IF ~ok THEN [db |-> rows, res |-> "StorageError"]
    ELSE IF HasPath(rows, rec.path) THEN [db |-> rows, res |-> "DuplicateKey"]
    ELSE [db |-> Append(rows, [rec EXCEPT !.tidy_score = <<>>]), res |-> "Ok"]

remove_file_from_db(rows, p, ok) ==
    IF ~ok THEN [db |-> rows, res |-> "StorageError"]
    ELSE IF ~HasPath(rows, p) THEN [db |-> rows, res |-> "NotFound"]
    ELSE [db |-> SelectSeq(rows, LAMBDA r : r.path # p), res |-> "Ok"]

update_file_last_modified(rows, p, t, ok) ==
    IF ~ok THEN [db |-> rows, res |-> "StorageError"]
    ELSE IF ~HasPath(rows, p) THEN [db |-> rows, res |-> "NotFound"]
    ELSE [db |-> [rows EXCEPT ![IndexOf(rows, p)].last_modified = t], res |-> "Ok"]

update_file_hash(rows, p, sig, ok) ==
    IF ~ok THEN [db |-> rows, res |-> "StorageError"]
    ELSE IF ~HasPath(rows, p) THEN [db |-> rows, res |-> "NotFound"]
    ELSE [db |-> [rows EXCEPT ![IndexOf(rows, p)].content_signature = sig], res |-> "Ok"]

update_file_path(rows, old, new, ok) ==
    IF ~ok THEN [db |-> rows, res |-> "StorageError"]
    ELSE IF ~HasPath(rows, old) THEN [db |-> rows, res |-> "NotFound"]
    ELSE IF HasPath(rows, new) THEN [db |-> rows, res |-> "DuplicateKey"]
    ELSE [db |-> [rows EXCEPT ![IndexOf(rows, old)].path = new], res |-> "Ok"]

\* update_grade: read the record, run the rule engine, write the score back.
update_grade(rows, p, ok) ==
    IF ~ok THEN [db |-> rows, res |-> "StorageError"]
    ELSE IF ~HasPath(rows, p) THEN [db |-> rows, res |-> "NotFound"]
    ELSE [db |-> [rows EXCEPT ![IndexOf(rows, p)].tidy_score =
                      <<Evaluate(rows[IndexOf(rows, p)], RuleSet)>>],
          res |-> "Ok"]

\* MyFiles::set_tidyscore
set_tidyscore(rows, p, score, ok) ==
    IF ~ok THEN [db |-> rows, res |-> "StorageError"]
    ELSE IF ~HasPath(rows, p) THEN [db |-> rows, res |-> "NotFound"]
    ELSE [db |-> [rows EXCEPT ![IndexOf(rows, p)].tidy_score = <<score>>], res |-> "Ok"]

Call(op, p, r) == [op |-> op, path |-> p, res |-> r.res]

\* ------------------------------------------------------------ event handlers
\* Each handler returns the rows after its first store call, the calls made so
\* far, whether it panicked, and `grade`: <<p>> when the handler goes on to
\* call update_grade(p) as a second store call of its own, <<>> when it is over.

\* Variant: removes without looking at the filesystem.
safe_remove_file_from_db_Unchecked(rows, f, p, ok) ==
    LET r == remove_file_from_db(rows, p, ok)
    IN [db |-> r.db, calls |-> <<Call("remove_file_from_db", p, r)>>, panic |-> FALSE,
        grade |-> <<>>]

\* lib.rs:159-173
safe_remove_file_from_db(rows, f, p, ok) ==
    IF ~Exists(f, p)
    THEN LET r == remove_file_from_db(rows, p, ok)
         IN [db |-> r.db, calls |-> <<Call("remove_file_from_db", p, r)>>, panic |-> FALSE,
             grade |-> <<>>]
    ELSE [db |-> rows, calls |-> <<>>, panic |-> FALSE, grade |-> <<>>]

\* Variant: adds without looking at the filesystem; a vanished file gets a
\* record built from the notification's path alone.
safe_add_file_to_db_Unchecked(rows, f, p, ok) ==
    LET rec == IF Exists(f, p) THEN create_file_info(f, p)[1]
               ELSE [path |-> p, size |-> 0, content_signature |-> 0,
                     last_modified |-> 1, tidy_score |-> <<>>]
        r == add_file_to_db(rows, rec, ok)
    IN [db |-> r.db, calls |-> <<Call("add_file_to_db", p, r)>>, panic |-> FALSE,
        grade |-> <<>>]

\* Variant: a failed add is "cleaned up" by removing the path.
safe_add_file_to_db_RemoveOnError(rows, f, p, ok) ==
    IF Exists(f, p)
    THEN LET r == add_file_to_db(rows, create_file_info(f, p)[1], ok)
             r2 == remove_file_from_db(r.db, p, ok)
         IN IF r.res = "Ok"
            THEN [db |-> r.db, calls |-> <<Call("add_file_to_db", p, r)>>, panic |-> FALSE,
                  grade |-> <<>>]
            ELSE [db |-> r2.db,
                  calls |-> <<Call("add_file_to_db", p, r), Call("remove_file_from_db", p, r2)>>,
                  panic |-> FALSE, grade |-> <<>>]
    ELSE [db |-> rows, calls |-> <<>>, panic |-> FALSE, grade |-> <<>>]

\* lib.rs:175-191
safe_add_file_to_db(rows, f, p, ok) ==
    IF Exists(f, p)
    THEN LET file == create_file_info(f, p)
         IN IF file # <<>>
            THEN LET r == add_file_to_db(rows, file[1], ok)
                 IN [db |-> r.db, calls |-> <<Call("add_file_to_db", p, r)>>, panic |-> FALSE,
                     grade |-> <<>>]
            ELSE [db |-> rows, calls |-> <<>>, panic |-> FALSE, grade |-> <<>>]
    ELSE [db |-> rows, calls |-> <<>>, panic |-> FALSE, grade |-> <<>>]

\* Variant: the rescoring is skipped when the store update returned an error.
handle_metadata_SkipOnError(rows, f, paths, ok) ==
    LET last_modified == get_last_access(f, paths[1])
    IN IF last_modified # <<>>
       THEN LET r1 == update_file_last_modified(rows, paths[1], last_modified[1], ok)
            IN [db |-> r1.db,
                calls |-> << Call("update_file_last_modified", paths[1], r1) >>,
                panic |-> FALSE,
                grade |-> IF r1.res = "Ok" THEN <<paths[1]>> ELSE <<>>]
       ELSE [db |-> rows, calls |-> <<>>, panic |-> FALSE, grade |-> <<>>]

\* lib.rs:217-231  EventKind::Modify(ModifyKind::Metadata(_)), up to the
\* update_grade call of line 225
handle_metadata(rows, f, paths, ok) ==
    LET last_modified == get_last_access(f, paths[1])
    IN IF last_modified # <<>>
       THEN LET r1 == update_file_last_modified(rows, paths[1], last_modified[1], ok)
            IN [db |-> r1.db,
                calls |-> << Call("update_file_last_modified", paths[1], r1) >>,
                panic |-> FALSE,
                grade |-> <<paths[1]>>]
       ELSE [db |-> rows, calls |-> <<>>, panic |-> FALSE, grade |-> <<>>]

\* lib.rs:232-240  EventKind::Modify(ModifyKind::Name(_)), up to the
\* update_grade call of line 239.
\* event.paths[1] is indexed without a length check: a notification that
\* carries one path panics before any store call.
handle_name(rows, f, paths, ok) ==
    IF Len(paths) < 2
    THEN [db |-> rows, calls |-> <<>>, panic |-> TRUE, grade |-> <<>>]
    ELSE LET r1 == update_file_path(rows, paths[1], paths[2], ok)
         IN [db |-> r1.db,
             calls |-> << Call("update_file_path", paths[1], r1) >>,
             panic |-> FALSE,
             grade |-> <<paths[1]>>]

\* Variant: the new signature is written to every record, not to paths[0]'s
\* alone.
handle_data_EveryRecord(rows, f, paths, ok) ==
    LET sig == get_file_signature(f, paths[1])
        r1 == update_file_hash(rows, paths[1], sig, ok)
        rows1 == IF r1.res = "Ok"
                 THEN [i \in DOMAIN r1.db |-> [r1.db[i] EXCEPT !.content_signature = sig]]
                 ELSE r1.db
    IN [db |-> rows1,
        calls |-> << Call("update_file_hash", paths[1], r1) >>,
        panic |-> FALSE,
        grade |-> <<paths[1]>>]

\* lib.rs:241-248  EventKind::Modify(ModifyKind::Data(_)), up to the
\* update_grade call of line 247
handle_data(rows, f, paths, ok) ==
    LET r1 == update_file_hash(rows, paths[1], get_file_signature(f, paths[1]), ok)
    IN [db |-> r1.db,
        calls |-> << Call("update_file_hash", paths[1], r1) >>,
        panic |-> FALSE,
        grade |-> <<paths[1]>>]

\* lib.rs:208-252  the handler up to and including its first store call
handle_file_events(rows, f, ev, ok) ==
    IF ev.kind = "Remove" THEN safe_remove_file_from_db(rows, f, ev.paths[1], ok)
    ELSE IF ev.kind = "Create" THEN safe_add_file_to_db(rows, f, ev.paths[1], ok)
    ELSE IF ev.kind = "Metadata" THEN handle_metadata(rows, f, ev.paths, ok)
    ELSE IF ev.kind = "Name" THEN handle_name(rows, f, ev.paths, ok)
    ELSE IF ev.kind = "Data" THEN handle_data(rows, f, ev.paths, ok)
    ELSE [db |-> rows, calls |-> <<>>, panic |-> FALSE, grade |-> <<>>]

\* lib.rs:225,239,247  the handler's second store call
rescore(rows, made, p, ok) ==
    LET r2 == update_grade(rows, p, ok)
    IN [db |-> r2.db, calls |-> Append(made, Call("update_grade", p, r2))]

\* ------------------------------------------------------------- notifications
Event(k, ps) == [kind |-> k, paths |-> ps]

\* Raw notifications the watcher backend can deliver: one path, or two for a
\* rename whose both ends are known.
RawEvents ==
    { Event(k, <<p>>) : k \in {"Remove", "Create", "Metadata", "Data", "Name", "Other"},
                        p \in Paths }
    \cup { Event("Name", <<p, q>>) : p \in Paths, q \in Paths }

CanSend == /\ StageDone("spawn_watcher")
           /\ ~panicked
           /\ sent < MaxEvents
           /\ Len(queue) < MaxQueue

Send(ev) == /\ queue' = Append(queue, ev)
            /\ sent' = sent + 1

\* ------------------------------------------------- filesystem and watcher
\* The states a watched file can be in, and two of them by name.
FileStates == { <<[content |-> c, mtime |-> t]>> : c \in Contents, t \in Times }

ListingOrders ==
    { o \in UNION { [1..k -> Paths] : k \in 0..MaxPaths } :
        \A i, j \in DOMAIN o : i # j => o[i] # o[j] }

Graded(f, o) ==
    [i \in DOMAIN o |->
        LET rec == create_file_info(f, o[i])[1]
        IN [rec EXCEPT !.tidy_score = <<Evaluate(rec, RuleSet)>>]]

AscendingOrders == { o \in ListingOrders : \A i, j \in DOMAIN o : i < j => o[i] < o[j] }

OldestFile == <<[content |-> 1, mtime |-> 1]>>
NewestFile == <<[content |-> MaxContent, mtime |-> MaxTime]>>

\* lib.rs:77-78,124  run() enters its consumer loop after the startup listing
\* and grading: the disk holds some files and the store holds the graded
\* records of the files the listing added (a file whose add failed, or that
\* appeared after the listing, is on disk without a record).
PipeInit ==
    /\ fs \in [Paths -> {<<>>, OldestFile, NewestFile}]
    /\ \E o \in AscendingOrders :
          /\ { o[i] : i \in DOMAIN o } \subseteq Existing(fs)
          /\ db = Graded(fs, o)
    /\ queue = <<>>
    /\ sent = 0
    /\ lastEvent = <<>>
    /\ calls = <<>>
    /\ pending = <<>>
    /\ panicked = FALSE

\* Two of these starts: nothing on disk and nothing tracked; every watched
\* path holding a file that the listing added and graded.
EmptyStart == fs = [p \in Paths |-> <<>>]
TrackedStart ==
    /\ fs = [p \in Paths |-> NewestFile]
    /\ PathsOf(db) = Paths

FsCreate ==
    \E p \in Paths, c \in Contents, t \in Times :
        /\ CanSend
        /\ ~Exists(fs, p)
        /\ fs' = [fs EXCEPT ![p] = <<[content |-> c, mtime |-> t]>>]
        /\ Send(Event("Create", <<p>>))
        /\ UNCHANGED <<db, lastEvent, calls, pending, panicked, backendReliable>>
        /\ UNCHANGED <<hubvars, apivars, startvars, srvvars>>

FsRemove ==
    \E p \in Paths :
        /\ CanSend
        /\ Exists(fs, p)
        /\ fs' = [fs EXCEPT ![p] = <<>>]
        /\ Send(Event("Remove", <<p>>))
        /\ UNCHANGED <<db, lastEvent, calls, pending, panicked, backendReliable>>
        /\ UNCHANGED <<hubvars, apivars, startvars, srvvars>>

FsTouch ==
    \E p \in Paths, t \in Times :
        /\ CanSend
        /\ Exists(fs, p)
        /\ t # fs[p][1].mtime
        /\ fs' = [fs EXCEPT ![p] = <<[fs[p][1] EXCEPT !.mtime = t]>>]
        /\ Send(Event("Metadata", <<p>>))
        /\ UNCHANGED <<db, lastEvent, calls, pending, panicked, backendReliable>>
        /\ UNCHANGED <<hubvars, apivars, startvars, srvvars>>

FsWrite ==
    \E p \in Paths, c \in Contents :
        /\ CanSend
        /\ Exists(fs, p)
        /\ c # fs[p][1].content
        /\ fs' = [fs EXCEPT ![p] = <<[fs[p][1] EXCEPT !.content = c]>>]
        /\ Send(Event("Data", <<p>>))
        /\ UNCHANGED <<db, lastEvent, calls, pending, panicked, backendReliable>>
        /\ UNCHANGED <<hubvars, apivars, startvars, srvvars>>

FsRename ==
    \E p \in Paths, q \in Paths :
        /\ CanSend
        /\ Exists(fs, p)
        /\ p # q
        /\ fs' = [fs EXCEPT ![q] = fs[p], ![p] = <<>>]
        /\ Send(Event("Name", <<p, q>>))
        /\ UNCHANGED <<db, lastEvent, calls, pending, panicked, backendReliable>>
        /\ UNCHANGED <<hubvars, apivars, startvars, srvvars>>

\* A duplicate, stale or partial notification from the watcher backend.
WatcherNotify ==
    \E ev \in RawEvents :
        /\ CanSend
        /\ Send(ev)
        /\ UNCHANGED <<fs, db, lastEvent, calls, pending, panicked, backendReliable>>
        /\ UNCHANGED <<hubvars, apivars, startvars, srvvars>>

\* ------------------------------------------------------------ consumer loop
\* lib.rs:116,124  the receiving end of crossbeam_channel::unbounded(): the
\* iterator yields the oldest notification still on the channel.
Receive_Newest(q) == q[Len(q)]
Receive(q) == Head(q)

\* lib.rs:124-126  for file_watcher_event in file_watcher_receiver { handle_file_events(..) }
\* The loop takes the next notification only when the handling of the one
\* before has returned.
CanHandle(kind) ==
    /\ ConsumerRunning
    /\ ~panicked
    /\ pending = <<>>
    /\ queue # <<>>
    /\ Receive(queue).kind = kind

Outcomes == IF backendReliable THEN {TRUE} ELSE BOOLEAN

\* The query API reads the same rows through its own instance: every state of
\* the rows while a read is under way is in that read's window.
Observed(rows) ==
    [r \in DOMAIN window |->
        IF rpc[r] = "locked" THEN window[r] \cup Rows(rows) ELSE window[r]]

\* The notification is taken off the channel and the handler runs up to and
\* including its first store call.
Handle(h) ==
    /\ db' = h.db
    /\ calls' = h.calls
    /\ panicked' = h.panic
    /\ pending' = h.grade
    /\ lastEvent' = <<Receive(queue)>>
    /\ queue' = Tail(queue)
    /\ window' = Observed(h.db)
    /\ UNCHANGED <<fs, sent, backendReliable>>
    /\ UNCHANGED <<hubvars, rpc, snapshot, response, mutex, startvars, srvvars>>

HandleRemove ==
    /\ CanHandle("Remove")
    /\ \E ok \in Outcomes : Handle(handle_file_events(db, fs, Receive(queue), ok))

HandleCreate ==
    /\ CanHandle("Create")
    /\ \E ok \in Outcomes : Handle(handle_file_events(db, fs, Receive(queue), ok))

HandleMetadata ==
    /\ CanHandle("Metadata")
    /\ \E ok \in Outcomes : Handle(handle_file_events(db, fs, Receive(queue), ok))

HandleName ==
    /\ CanHandle("Name")
    /\ \E ok \in Outcomes : Handle(handle_file_events(db, fs, Receive(queue), ok))

HandleData ==
    /\ CanHandle("Data")
    /\ \E ok \in Outcomes : Handle(handle_file_events(db, fs, Receive(queue), ok))

\* lib.rs:249-251: any other kind of notification is ignored.
HandleOther ==
    /\ CanHandle("Other")
    /\ \E ok \in Outcomes : Handle(handle_file_events(db, fs, Receive(queue), ok))

\* lib.rs:225,239,247  the second store call of a modify handler: a critical
\* section of its own, the store being free since the first call returned.
Rescore ==
    /\ ConsumerRunning
    /\ ~panicked
    /\ pending # <<>>
    /\ \E ok \in Outcomes :
          LET h == rescore(db, calls, pending[1], ok)
          IN /\ db' = h.db
             /\ calls' = h.calls
             /\ window' = Observed(h.db)
    /\ pending' = <<>>
    /\ UNCHANGED <<fs, queue, sent, lastEvent, panicked, backendReliable>>
    /\ UNCHANGED <<hubvars, rpc, snapshot, response, mutex, startvars, srvvars>>

PipeNext ==
    \/ FsCreate \/ FsRemove \/ FsTouch \/ FsWrite \/ FsRename \/ WatcherNotify
    \/ HandleRemove \/ HandleCreate \/ HandleMetadata
    \/ HandleName \/ HandleData \/ HandleOther \/ Rescore

\* ------------------------------------------------------------ store builder
\* configuration.rs:52-55  MyFilesConfiguration, by the field that matters here.
MyFilesConfigurations == { [drop_db_on_start |-> d] : d \in BOOLEAN }

\* configuration.rs:97-100
DefaultMyFilesConfiguration == [drop_db_on_start |-> FALSE]

\* my_files::MyFilesBuilder<C, M, S>, a type-state builder.  `typed` is the
\* type of the value: which of its three type parameters carry the
\* ...Present / Sealed marker.  The other fields are what the value holds:
\* the configuration and the connection manager a caller supplied, and
\* whether seal() was called on it.
NoMarkers == [configuration |-> FALSE, connection_manager |-> FALSE, sealed |-> FALSE]
SealedType == [configuration |-> TRUE, connection_manager |-> TRUE, sealed |-> TRUE]

\* lib.rs:58  MyFilesBuilder::new()
MyFilesBuilder_new ==
    [typed |-> NoMarkers, configuration |-> <<>>, connection_manager |-> FALSE,
     sealed |-> FALSE]

\* lib.rs:59  .configure(config.my_files_config): supplies the configuration
\* and, from it, the connection manager.
configure(b, c) ==
    [b EXCEPT !.typed.configuration = TRUE, !.typed.connection_manager = TRUE,
              !.configuration = <<c>>, !.connection_manager = TRUE]

\* lib.rs:60  .seal()
seal(b) == [b EXCEPT !.typed.sealed = TRUE, !.sealed = TRUE]

\* The methods the type of b has (spec section 4.2: calling one on any other
\* type does not compile).
CanConfigure(b) == b.typed = NoMarkers
CanSeal(b) == b.typed.configuration /\ b.typed.connection_manager /\ ~b.typed.sealed
CanBuild(b) == b.typed = SealedType

\* lib.rs:62, server.rs:74  .build(): <<>> where the call does not compile;
\* the instance remembers the builder it was made from.
MyFilesBuilder_build(b) == IF CanBuild(b) THEN <<[from |-> b]>> ELSE <<>>

\* server.rs:37-42  #[derive(Clone, Default)] on ServerBuilder needs Default
\* for the type of its field, MyFilesBuilder<ConfigurationPresent,
\* ConnectionManagerPresent, Sealed>: a value of the sealed type that no
\* caller supplied anything to and that seal() was never called on.
MyFilesBuilder_default ==
    [typed |-> SealedType, configuration |-> <<>>, connection_manager |-> FALSE,
     sealed |-> FALSE]
ServerBuilder_default == [my_files_builder |-> MyFilesBuilder_default]

\* server.rs:50-52
ServerBuilder_new == ServerBuilder_default

\* server.rs:54-64
ServerBuilder_my_files_builder(sb, b) == [sb EXCEPT !.my_files_builder = b]

\* server.rs:66-78  the server's own MyFiles instance
ServerBuilder_build(sb) == MyFilesBuilder_build(sb.my_files_builder)

\* lib.rs:58-60
RunMyFilesBuilder(c) == seal(configure(MyFilesBuilder_new, c))

\* lib.rs:80-81  ServerBuilder::new().my_files_builder(my_files_builder)
RunServerBuilder(b) == ServerBuilder_my_files_builder(ServerBuilder_new, b)

\* ------------------------------------------------------------- query server
\* Strings are sequences of characters.  The parser is the one behind
\* str::parse::<SocketAddr>(): it reads from a position and answers <<>> (None)
\* or <<[pos |-> position after what was read, val |-> value read]>>.
HexDigits == <<"0", "1", "2", "3", "4", "5", "6", "7", "8", "9", "a", "b", "c", "d", "e", "f">>
HexUpper == <<"0", "1", "2", "3", "4", "5", "6", "7", "8", "9", "A", "B", "C", "D", "E", "F">>

\* char::to_digit(radix): the digit's value, or -1 when it is no digit.
to_digit(ch, radix) ==
    LET at == { i \in 1..radix : HexDigits[i] = ch \/ HexUpper[i] = ch }
    IN IF at = {} THEN -1 ELSE (CHOOSE i \in at : TRUE) - 1

CharAt(str, pos) == IF pos \in DOMAIN str THEN str[pos] ELSE ""

read_given_char(str, pos, ch) ==
    IF CharAt(str, pos) = ch THEN <<pos + 1>> ELSE <<>>

\* The position after the longest run of digits that starts at pos.
RECURSIVE DigitsEnd(_, _, _)
DigitsEnd(str, pos, radix) ==
    IF to_digit(CharAt(str, pos), radix) >= 0 THEN DigitsEnd(str, pos + 1, radix) ELSE pos

\* The number the first n digits write.
RECURSIVE NumberUpTo(_, _, _)
NumberUpTo(digits, n, radix) ==
    IF n = 0 THEN 0
    ELSE NumberUpTo(digits, n - 1, radix) * radix + to_digit(digits[n], radix)

NumberOf(digits, radix) == NumberUpTo(digits, Len(digits), radix)

\* The digits without their leading zeros.
RECURSIVE Significant(_)
Significant(digits) ==
    IF digits # <<>> /\ digits[1] = "0" THEN Significant(Tail(digits)) ELSE digits

\* Digit by digit, for two numbers written with as many digits.
RECURSIVE NotAbove(_, _, _)
NotAbove(a, b, radix) ==
    IF a = <<>> THEN TRUE
    ELSE IF to_digit(a[1], radix) # to_digit(b[1], radix)
    THEN to_digit(a[1], radix) < to_digit(b[1], radix)
    ELSE NotAbove(Tail(a), Tail(b), radix)

\* checked_mul / checked_add never overflow: the number is at most `max`, the
\* largest value of the type written in the same radix.
Fits(sig, radix, max) ==
    \/ Len(sig) < Len(max)
    \/ Len(sig) = Len(max) /\ NotAbove(sig, max, radix)

U8_MAX == <<"2", "5", "5">>
U16_MAX == <<"6", "5", "5", "3", "5">>
U16_MAX_HEX == <<"f", "f", "f", "f">>
U32_MAX == <<"4", "2", "9", "4", "9", "6", "7", "2", "9", "5">>

\* The one element of a singleton.  { f(x) : x \in {e} } computes e once and
\* hands its value to f: the parser below names its intermediate results
\* that way.
Only(singleton) == CHOOSE x \in singleton : TRUE

\* read_number(radix, max_digits, allow_zero_prefix) into an unsigned type
\* whose largest value is max; max_digits = 0 stands for None.  Every digit
\* that follows is read; too many digits, an overflow of the type, no digit
\* at all or a forbidden leading zero give None.  The value is left as its
\* significant digits, see NumberOf.
read_number(str, pos, radix, max_digits, allow_zero_prefix, max) ==
    Only({ IF \/ end = pos
              \/ max_digits > 0 /\ end - pos > max_digits
              \/ ~allow_zero_prefix /\ CharAt(str, pos) = "0" /\ end - pos > 1
           THEN <<>>
           ELSE Only({ IF Fits(sig, radix, max) THEN <<[pos |-> end, val |-> sig]>>
                       ELSE <<>>
                       : sig \in {Significant(SubSeq(str, pos, end - 1))} })
           : end \in {DigitsEnd(str, pos, radix)} })

\* read_ipv4_addr: four octets, without leading zeros, separated by dots.
RECURSIVE read_octets(_, _, _)
read_octets(str, pos, got) ==
    IF Len(got) = 4 THEN <<[pos |-> pos, val |-> got]>>
    ELSE Only({ IF octet = <<>> THEN <<>>
                ELSE read_octets(str, octet[1].pos,
                                 Append(got, NumberOf(octet[1].val, 10)))
                : octet \in { IF Len(got) = 0
                              THEN read_number(str, pos, 10, 3, FALSE, U8_MAX)
                              ELSE IF CharAt(str, pos) = "."
                              THEN read_number(str, pos + 1, 10, 3, FALSE, U8_MAX)
                              ELSE <<>> } })

read_ipv4_addr(str, pos) == read_octets(str, pos, <<>>)

\* read_groups: up to `limit` 16-bit groups separated by colons, the last two
\* possibly written as an embedded IPv4 address; stops at the first group
\* that cannot be read.
RECURSIVE read_groups(_, _, _, _)
read_groups(str, pos, limit, got) ==
    IF Len(got) >= limit THEN [pos |-> pos, groups |-> got, ipv4 |-> FALSE]
    ELSE Only({
        IF sep = <<>> THEN [pos |-> pos, groups |-> got, ipv4 |-> FALSE]
        ELSE Only({
            IF v4 # <<>>
            THEN [pos |-> v4[1].pos,
                  groups |-> got \o << v4[1].val[1] * 256 + v4[1].val[2],
                                       v4[1].val[3] * 256 + v4[1].val[4] >>,
                  ipv4 |-> TRUE]
            ELSE Only({
                IF group = <<>> THEN [pos |-> pos, groups |-> got, ipv4 |-> FALSE]
                ELSE read_groups(str, group[1].pos, limit,
                                 Append(got, NumberOf(group[1].val, 16)))
                : group \in {read_number(str, sep[1], 16, 4, TRUE, U16_MAX_HEX)} })
            : v4 \in { IF Len(got) < limit - 1 THEN read_ipv4_addr(str, sep[1])
                       ELSE <<>> } })
        : sep \in { IF Len(got) > 0 THEN read_given_char(str, pos, ":") ELSE <<pos>> } })

\* read_ipv6_addr: eight groups, or a head and a tail around one "::".
read_ipv6_addr(str, pos) ==
    Only({
        IF Len(head.groups) = 8 THEN <<[pos |-> head.pos, val |-> head.groups]>>
        ELSE IF head.ipv4 \/ CharAt(str, head.pos) # ":" \/ CharAt(str, head.pos + 1) # ":"
        THEN <<>>
        ELSE Only({
            <<[pos |-> tail.pos,
               val |-> head.groups
                       \o [i \in 1..(8 - Len(head.groups) - Len(tail.groups)) |-> 0]
                       \o tail.groups]>>
            : tail \in {read_groups(str, head.pos + 2, 8 - (Len(head.groups) + 1), <<>>)} })
        : head \in {read_groups(str, pos, 8, <<>>)} })

\* read_port: a colon and a u16
read_port(str, pos) ==
    IF CharAt(str, pos) = ":" THEN read_number(str, pos + 1, 10, 0, TRUE, U16_MAX)
    ELSE <<>>

\* read_scope_id: a percent sign and a u32, kept as its significant decimal
\* digits (<<>> is 0)
read_scope_id(str, pos) ==
    IF CharAt(str, pos) = "%" THEN read_number(str, pos + 1, 10, 0, TRUE, U32_MAX)
    ELSE <<>>

read_socket_addr_v4(str, pos) ==
    Only({
        IF ip = <<>> THEN <<>>
        ELSE Only({
            IF port = <<>> THEN <<>>
            ELSE <<[pos |-> port[1].pos,
                    val |-> [ip |-> ip[1].val, port |-> NumberOf(port[1].val, 10)]]>>
            : port \in {read_port(str, ip[1].pos)} })
        : ip \in {read_ipv4_addr(str, pos)} })

\* "[" address, an optional "%" scope, "]" and the port
read_socket_addr_v6(str, pos) ==
    IF CharAt(str, pos) # "[" THEN <<>>
    ELSE Only({
        IF ip = <<>> THEN <<>>
        ELSE Only({
            Only({
                IF CharAt(str, inner) # "]" THEN <<>>
                ELSE Only({
                    IF port = <<>> THEN <<>>
                    ELSE <<[pos |-> port[1].pos,
                            val |-> [ip |-> ip[1].val,
                                     port |-> NumberOf(port[1].val, 10),
                                     scope_id |-> IF scope = <<>> THEN <<>>
                                                  ELSE scope[1].val]]>>
                    : port \in {read_port(str, inner + 1)} })
                : inner \in { IF scope = <<>> THEN ip[1].pos ELSE scope[1].pos } })
            : scope \in {read_scope_id(str, ip[1].pos)} })
        : ip \in {read_ipv6_addr(str, pos + 1)} })

\* str::parse::<SocketAddr>(): a V4 socket address or else a V6 one, and
\* nothing after it; <<>> is Err, <<a>> is Ok(a).
parse_socket_addr(str) ==
    Only({
        Only({ IF addr # <<>> /\ addr[1].pos = Len(str) + 1 THEN <<addr[1].val>>
               ELSE <<>>
               : addr \in { IF v4 # <<>> THEN v4 ELSE read_socket_addr_v6(str, 1) } })
        : v4 \in {read_socket_addr_v4(str, 1)} })

\* configuration.rs:82  the address of the built-in configuration
DefaultConfigAddress == <<"0", ".", "0", ".", "0", ".", "0", ":", "8", "1", "1", "1">>

\* The listen addresses explored.
ConfiguredAddresses ==
    { DefaultConfigAddress,
      <<"1", "2", "7", ".", "0", ".", "0", ".", "1", ":", "8", "0">>,
      <<"l", "o", "c", "a", "l", "h", "o", "s", "t", ":", "8", "1", "1", "1">>,
      <<"0", ".", "0", ".", "0", ".", "0">>,
      <<"2", "5", "6", ".", "0", ".", "0", ".", "1", ":", "8", "0">>,
      <<"1", "2", "7", ".", "0", ".", "0", ".", "1", ":", "6", "5", "5", "3", "6">>,
      <<"1", ".", "2", ".", "3", ":", "8", "0">>,
      <<"[", ":", ":", "1", "]", ":", "8", "0">>,
      <<"[", ":", ":", "f", "f", "f", "f", ":", "1", ".", "2", ".", "3", ".", "4", "]", ":", "8", "0">>,
      <<"[", "f", "e", "8", "0", ":", ":", "1", "%", "3", "]", ":", "8", "1", "1", "1">>,
      <<"[", ":", ":", "1", "]">>,
      <<>> }

ConfiguredHosts == { <<"0", ".", "0", ".", "0", ".", "0">>, <<"l", "o", "c", "a", "l", "h", "o", "s", "t">>,
                     <<"[", ":", ":", "1", "]">>, <<>> }
ConfiguredPorts == { <<"8", "1", "1", "1">>, <<"h", "t", "t", "p">>, <<"6", "5", "5", "3", "6">> }

\* server.rs:31-35  #[derive(Default)] struct Server: the default address is
\* String::default(), the empty string.
Server_default == [address |-> <<>>]

\* http_server.rs:86-93  impl Default for HttpServerConfig
HttpServerConfig_default == [host |-> <<"0", ".", "0", ".", "0", ".", "0">>, port |-> <<"8", "1", "1", "1">>]

\* format!("{}:{}", host, port)
format_host_port(host, port) == host \o <<":">> \o port

\* server.rs:122-132  the configured address, or on Err the parse of
\* Server::default().address, unwrapped.
Server_start_address(address) ==
    IF parse_socket_addr(address) # <<>>
    THEN [addr |-> parse_socket_addr(address), panic |-> FALSE]
    ELSE LET fallback == parse_socket_addr(Server_default.address)
         IN [addr |-> fallback, panic |-> fallback = <<>>]

\* http_server.rs:158-177
HttpServer_start_address(host, port) ==
    IF parse_socket_addr(format_host_port(host, port)) # <<>>
    THEN [addr |-> parse_socket_addr(format_host_port(host, port)), panic |-> FALSE]
    ELSE LET fallback == parse_socket_addr(format_host_port(HttpServerConfig_default.host,
                                                            HttpServerConfig_default.port))
         IN [addr |-> fallback, panic |-> fallback = <<>>]

ServerConfigs ==
    { [kind |-> "Server", address |-> a] : a \in ConfiguredAddresses }
    \cup { [kind |-> "HttpServer", host |-> h, port |-> p] :
               h \in ConfiguredHosts, p \in ConfiguredPorts }

ConfiguredAddress(conf) ==
    IF conf.kind = "Server" THEN conf.address ELSE format_host_port(conf.host, conf.port)

\* The spawned server task settles on its socket address, or panics.
ServerResolve ==
    /\ srvpc = "spawned"
    /\ LET r == IF srvconf.kind = "Server"
                THEN Server_start_address(srvconf.address)
                ELSE HttpServer_start_address(srvconf.host, srvconf.port)
       IN /\ srvpc' = IF r.panic THEN "panicked" ELSE "resolved"
          /\ listenAddr' = r.addr
    /\ UNCHANGED srvconf
    /\ UNCHANGED <<hubvars, pipevars, apivars, startvars>>

\* server.rs:133-139,149  TcpListener::bind: on Err the task logs and returns;
\* http_server.rs:181-184  axum::Server::bind panics when it cannot bind.
ServerBind ==
    /\ srvpc = "resolved"
    /\ \E bound \in BOOLEAN :
          srvpc' = IF bound THEN "serving"
                   ELSE IF srvconf.kind = "Server" THEN "returned" ELSE "panicked"
    /\ UNCHANGED <<srvconf, listenAddr>>
    /\ UNCHANGED <<hubvars, pipevars, apivars, startvars>>

\* The server of run() is up on the address of the built-in configuration.
ServingInit ==
    /\ srvconf = [kind |-> "Server", address |-> DefaultConfigAddress]
    /\ srvpc = "serving"
    /\ listenAddr = parse_socket_addr(DefaultConfigAddress)

\* ------------------------------------------------------------ initial states
ApiInit ==
    /\ rpc = [r \in Readers |-> "idle"]
    /\ snapshot = [r \in Readers |-> <<>>]
    /\ window = [r \in Readers |-> {}]
    /\ response = <<>>
    /\ mutex = "free"

\* run() has reached its consumer loop (lib.rs:124): every startup step is done.
StartedInit ==
    /\ stage = Len(StartupOrder) + 1
    /\ sub = "idle"
    /\ todo = <<>>
    /\ startCalls = <<>>
    /\ my_files_builder = <<RunMyFilesBuilder(DefaultMyFilesConfiguration)>>
    /\ pipeStore = MyFilesBuilder_build(my_files_builder[1])
    /\ apiStore = ServerBuilder_build(RunServerBuilder(my_files_builder[1]))
    /\ buildCalls = {my_files_builder[1]}
    /\ missed = 0

\* The persistence backend may fail any call (StorageError).
Init ==
    /\ HubInit /\ PipeInit /\ ApiInit /\ StartedInit /\ ServingInit
    /\ backendReliable = FALSE

\* The pipeline alone: the hub task has not been scheduled yet.  The consumer
\* starts over an empty watched directory or over a fully listed one.
PipeOnlyInit ==
    /\ Init /\ ~hubReachable /\ connection_attempt_limit = 1
    /\ (EmptyStart \/ TrackedStart)
PipeSpec == PipeOnlyInit /\ [][PipeNext]_vars

\* The hub retry task alone.
HubOnlySpec == Init /\ [][HubNext]_vars

\* The retry task is scheduled by the runtime: a sleep that is due completes
\* and a pending connect call returns.
HubFairSpec == HubOnlySpec /\ WF_vars(HubSleep) /\ WF_vars(HubAttempt)

\* The pipeline fed only by real creations, removals and renames, each
\* notified exactly once and in order, over a backend that never fails.
ConvInit ==
    /\ HubInit /\ PipeInit /\ ApiInit /\ StartedInit /\ ServingInit
    /\ backendReliable = TRUE
    /\ ~hubReachable /\ connection_attempt_limit = 1
    /\ (EmptyStart \/ TrackedStart)

ConvNext ==
    \/ FsCreate \/ FsRemove \/ FsRename
    \/ HandleCreate \/ HandleRemove \/ HandleName \/ Rescore

ConvSpec == ConvInit /\ [][ConvNext]_vars

Next == HubNext \/ PipeNext
\* The hub task beside the pipeline, from the same two starts.
HubAndPipeInit == Init /\ (EmptyStart \/ TrackedStart)
Spec == HubAndPipeInit /\ [][Next]_vars

\* ---------------------------------------------------------------- query API
\* Strings are sequences of characters.
Upper == <<"A", "B", "C", "D", "E", "F", "G", "H", "I", "J", "K", "L", "M",
           "N", "O", "P", "Q", "R", "S", "T", "U", "V", "W", "X", "Y", "Z">>
Lower == <<"a", "b", "c", "d", "e", "f", "g", "h", "i", "j", "k", "l", "m",
           "n", "o", "p", "q", "r", "s", "t", "u", "v", "w", "x", "y", "z">>

\* str::to_lowercase
CharToLower(ch) ==
    IF \E i \in DOMAIN Upper : Upper[i] = ch
    THEN Lower[CHOOSE i \in DOMAIN Upper : Upper[i] = ch]
    ELSE ch
to_lowercase(str) == [i \in DOMAIN str |-> CharToLower(str[i])]

STR_size == <<"s", "i", "z", "e">>
STR_last_update == <<"l", "a", "s", "t", "_", "u", "p", "d", "a", "t", "e">>

\* The sort_by path segments explored.
SortKeys ==
    { STR_size, STR_last_update,
      <<"S", "i", "z", "e">>,
      <<"L", "A", "S", "T", "_", "U", "P", "D", "A", "T", "E">>,
      <<"l", "a", "s", "t", "-", "u", "p", "d", "a", "t", "e">>,
      <<"n", "a", "m", "e">>,
      <<>> }

\* http_server.rs:44-51  the field the comparator of sort_by compares.
SortField(sort_by) ==
    LET k == to_lowercase(sort_by)
    IN IF k = STR_size THEN "size"
       ELSE IF k = STR_last_update THEN "last_modified"
       ELSE "size"

KeyOf(rec, field) == IF field = "size" THEN rec.size ELSE rec.last_modified

\* slice::sort_by with the comparator b.key.cmp(&a.key): a stable sort, larger
\* keys first, written as an insertion sort that keeps equal keys in order.
InsertDescending(sorted, rec, field) ==
    LET n == Cardinality({ i \in 1..Len(sorted) :
                              KeyOf(sorted[i], field) >= KeyOf(rec, field) })
    IN SubSeq(sorted, 1, n) \o <<rec>> \o SubSeq(sorted, n + 1, Len(sorted))

RECURSIVE sort_by_descending(_, _)
sort_by_descending(rows, field) ==
    IF rows = <<>> THEN <<>>
    ELSE InsertDescending(sort_by_descending(SubSeq(rows, 1, Len(rows) - 1), field),
                          rows[Len(rows)], field)

\* Iterator::take
take(rows, n) == SubSeq(rows, 1, IF n < Len(rows) THEN n ELSE Len(rows))

\* Variant: truncates before sorting.
get_files_TakeThenSort(files_vec, number_of_files, sort_by) ==
    sort_by_descending(take(files_vec, number_of_files), SortField(sort_by))

\* http_server.rs:44-53  sort, then keep the first number_of_files.
get_files(files_vec, number_of_files, sort_by) ==
    take(sort_by_descending(files_vec, SortField(sort_by)), number_of_files)

\* MyFiles::get_all_files_from_db
get_all_files_from_db(rows, ok) ==
    IF ok THEN [files |-> rows, res |-> "Ok"] ELSE [files |-> <<>>, res |-> "StorageError"]

\* A request for GET /get_files/:number_of_files/:sort_by arrives.
ReadStart(r) ==
    /\ StageDone("spawn_server")
    /\ srvpc = "serving"
    /\ rpc[r] \in {"idle", "responded"}
    /\ rpc' = [rpc EXCEPT ![r] = "waiting"]
    /\ snapshot' = [snapshot EXCEPT ![r] = <<>>]
    /\ window' = [window EXCEPT ![r] = {}]
    /\ response' = <<>>
    /\ UNCHANGED mutex
    /\ UNCHANGED <<hubvars, pipevars, startvars, srvvars>>

\* http_server.rs:37-40  my_files.my_files.lock().unwrap(): waits while
\* another request holds the mutex; panics when the mutex is poisoned.
ReadLock(r) ==
    /\ rpc[r] = "waiting"
    /\ mutex # "held"
    /\ IF mutex = "poisoned"
       THEN /\ rpc' = [rpc EXCEPT ![r] = "idle"]
            /\ UNCHANGED <<window, mutex>>
       ELSE /\ rpc' = [rpc EXCEPT ![r] = "locked"]
            /\ window' = [window EXCEPT ![r] = Rows(db)]
            /\ mutex' = "held"
    /\ UNCHANGED <<snapshot, response>>
    /\ UNCHANGED <<hubvars, pipevars, startvars, srvvars>>

\* Variant: lists the files on disk instead of the records of the store.
ReadQuery_FromDisk(r) ==
    /\ rpc[r] = "locked"
    /\ rpc' = [rpc EXCEPT ![r] = "queried"]
    /\ snapshot' = [snapshot EXCEPT ![r] =
                       IF Existing(fs) = {} THEN <<>>
                       ELSE create_file_info(fs, CHOOSE p \in Existing(fs) : TRUE)]
    /\ mutex' = "free"
    /\ UNCHANGED <<window, response>>
    /\ UNCHANGED <<hubvars, pipevars, startvars, srvvars>>

\* http_server.rs:40-42  .get_all_files_from_db().unwrap(); the guard is
\* dropped at the end of the statement. An Err panics with the guard held,
\* which poisons the mutex and ends the request without a response.
ReadQuery(r) ==
    /\ rpc[r] = "locked"
    /\ \E ok \in Outcomes :
          LET q == get_all_files_from_db(db, ok)
          IN IF q.res = "Ok"
             THEN /\ rpc' = [rpc EXCEPT ![r] = "queried"]
                  /\ snapshot' = [snapshot EXCEPT ![r] = q.files]
                  /\ mutex' = "free"
             ELSE /\ rpc' = [rpc EXCEPT ![r] = "idle"]
                  /\ snapshot' = snapshot
                  /\ mutex' = "poisoned"
    /\ UNCHANGED <<window, response>>
    /\ UNCHANGED <<hubvars, pipevars, startvars, srvvars>>

\* http_server.rs:44-53  sort, take and answer.
ReadRespond(r) ==
    /\ rpc[r] = "queried"
    /\ \E n \in 0..MaxN, k \in SortKeys :
          response' = << [number_of_files |-> n, sort_by |-> k,
                          files |-> get_files(snapshot[r], n, k)] >>
    /\ rpc' = [rpc EXCEPT ![r] = "responded"]
    /\ UNCHANGED <<snapshot, window, mutex>>
    /\ UNCHANGED <<hubvars, pipevars, startvars, srvvars>>

Start == \E r \in Readers : ReadStart(r)
Lock == \E r \in Readers : ReadLock(r)
Query == \E r \in Readers : ReadQuery(r)
Respond == \E r \in Readers : ReadRespond(r)

\* The read of a query beside a pipeline that handles the changes of the
\* watched files, each notified once: a read can fall before, between or
\* after the store calls of a handler.
ApiNext ==
    \/ FsCreate \/ FsRemove \/ FsTouch \/ FsWrite \/ FsRename
    \/ HandleCreate \/ HandleRemove \/ HandleMetadata \/ HandleData \/ HandleName
    \/ Rescore
    \/ Start \/ Lock \/ Query

ReadersInit == PipeOnlyInit /\ EmptyStart
ApiSpec == ReadersInit /\ [][ApiNext]_vars

\* Whole queries against every content the store can have after the startup
\* listing and grading, with the pipeline quiet.
QueryInit ==
    /\ HubInit /\ ApiInit /\ StartedInit /\ ServingInit
    /\ ~hubReachable /\ connection_attempt_limit = 1
    /\ backendReliable = FALSE
    /\ fs \in [Paths -> FileStates \cup {<<>>}]
    /\ \E o \in ListingOrders :
          /\ { o[i] : i \in DOMAIN o } = Existing(fs)
          /\ db = Graded(fs, o)
    /\ queue = <<>>
    /\ sent = 0
    /\ lastEvent = <<>>
    /\ calls = <<>>
    /\ pending = <<>>
    /\ panicked = FALSE

QueryNext == Start \/ Lock \/ Query \/ Respond

QuerySpec == QueryInit /\ [][QueryNext]_vars

\* The server task just spawned, with any configured address, and the
\* queries it serves once it is up.
ServeInit ==
    /\ HubInit /\ PipeInit /\ ApiInit /\ StartedInit
    /\ ~hubReachable /\ connection_attempt_limit = 1
    /\ backendReliable = FALSE
    /\ srvconf \in ServerConfigs
    /\ srvpc = "spawned"
    /\ listenAddr = <<>>

ServeNext == ServerResolve \/ ServerBind \/ Start \/ Lock \/ Query \/ Respond

ServeSpec == ServeInit /\ [][ServeNext]_vars

\* ------------------------------------------------------------------ startup
\* MyFiles::init_db: schema setup; drops the stored records when
\* drop_db_on_start is configured.
init_db(rows, drop_db_on_start) == IF drop_db_on_start THEN <<>> ELSE rows

\* file_lister::list_directories: the files found, in directory order, with
\* their attributes at the time of the listing.
Listing(f) ==
    LET o == CHOOSE o \in AscendingOrders : { o[i] : i \in DOMAIN o } = Existing(f)
    IN [i \in DOMAIN o |-> create_file_info(f, o[i])[1]]

\* lib.rs:134-151  one turn of the listing loop.
list_file(rows, file, ok1, ok2) ==
    LET a == add_file_to_db(rows, file, ok1)
    IN IF a.res = "Ok"
       THEN LET t == set_tidyscore(a.db, file.path, Evaluate(file, RuleSet), ok2)
            IN [db |-> t.db,
                calls |-> << Call("add_file_to_db", file.path, a),
                             Call("set_tidyscore", file.path, t) >>]
       ELSE [db |-> rows, calls |-> <<Call("add_file_to_db", file.path, a)>>]

\* lib.rs:197  for file in files
grade_targets(files) == files

\* What a previous run can have left in the database file (init_db keeps it
\* unless drop_db_on_start is set): records of any of the watched paths, in
\* any order, with the attributes the file had then, and without a score,
\* with the score of another rule set or with the score of this one.
PriorRecords(p) ==
    { [rec EXCEPT !.tidy_score = score] :
        rec \in { create_file_info([q \in Paths |-> file], p)[1] :
                    file \in {OldestFile, NewestFile} },
        score \in {<<>>, <<0>>} \cup { <<Evaluate(r, RuleSet)>> :
                    r \in { create_file_info([q \in Paths |-> file], p)[1] :
                              file \in {OldestFile, NewestFile} } } }

PriorStores ==
    UNION { { rows \in [DOMAIN o -> UNION { PriorRecords(p) : p \in Paths }] :
                \A i \in DOMAIN o : rows[i].path = o[i] } : o \in ListingOrders }

\* run() starts: nothing is built; the disk holds some files, and the
\* database holds whatever a previous run left, for files that may have
\* changed or gone since.
StartBase ==
    /\ HubInit /\ ~hubReachable /\ connection_attempt_limit = 1
    /\ ApiInit
    /\ stage = 1
    /\ sub = "idle"
    /\ todo = <<>>
    /\ startCalls = <<>>
    /\ my_files_builder = <<>>
    /\ pipeStore = <<>>
    /\ apiStore = <<>>
    /\ buildCalls = {}
    /\ missed = 0
    /\ srvconf = [kind |-> "Server", address |-> DefaultConfigAddress]
    /\ srvpc = "unspawned"
    /\ listenAddr = <<>>
    /\ fs \in [Paths -> {<<>>, OldestFile, NewestFile}]
    /\ db \in PriorStores
    /\ queue = <<>>
    /\ sent = 0
    /\ lastEvent = <<>>
    /\ calls = <<>>
    /\ pending = <<>>
    /\ panicked = FALSE

StartupFrame ==
    UNCHANGED <<hubvars, apivars, queue, sent, lastEvent, calls, pending, backendReliable>>
ServerFrame == UNCHANGED srvvars

\* The loop over todo goes on, or the stage is over.
LoopOrAdvance(rest) ==
    /\ todo' = rest
    /\ IF rest = <<>>
       THEN stage' = stage + 1 /\ sub' = "idle"
       ELSE stage' = stage /\ sub' = "loop"

\* lib.rs:58-60
MakeBuilder ==
    /\ AtStage("builder") /\ ~panicked
    /\ \E c \in MyFilesConfigurations : my_files_builder' = <<RunMyFilesBuilder(c)>>
    /\ stage' = stage + 1
    /\ UNCHANGED <<sub, todo, startCalls, pipeStore, apiStore, buildCalls, missed>>
    /\ UNCHANGED <<fs, db, panicked>>
    /\ StartupFrame
    /\ ServerFrame

\* lib.rs:62-65  build().unwrap() and init_db().unwrap()
BuildStore ==
    /\ AtStage("store") /\ ~panicked
    /\ MyFilesBuilder_build(my_files_builder[1]) # <<>>
    /\ buildCalls' = buildCalls \cup {my_files_builder[1]}
    /\ \E ok \in Outcomes :
          IF ok
          THEN /\ pipeStore' = MyFilesBuilder_build(my_files_builder[1])
               /\ db' = init_db(db, my_files_builder[1].configuration[1].drop_db_on_start)
               /\ stage' = stage + 1
               /\ panicked' = FALSE
          ELSE /\ panicked' = TRUE
               /\ UNCHANGED <<pipeStore, db, stage>>
    /\ UNCHANGED <<sub, todo, startCalls, my_files_builder, apiStore, missed, fs>>
    /\ StartupFrame
    /\ ServerFrame

\* lib.rs:132-133,153-155  file_lister::list_directories(config)
ListStart ==
    /\ AtStage("list") /\ sub = "idle" /\ ~panicked
    /\ \E ok \in Outcomes :
          /\ LoopOrAdvance(IF ok THEN Listing(fs) ELSE <<>>)
          /\ startCalls' = Append(startCalls,
                                  [op |-> "list_directories", path |-> <<>>,
                                   res |-> IF ok THEN "Ok" ELSE "Err"])
    /\ UNCHANGED <<my_files_builder, pipeStore, apiStore, missed, fs, db, panicked, buildCalls>>
    /\ StartupFrame
    /\ ServerFrame

ListFile ==
    /\ AtStage("list") /\ sub = "loop" /\ ~panicked
    /\ \E ok1 \in Outcomes, ok2 \in Outcomes :
          LET h == list_file(db, Head(todo), ok1, ok2)
          IN /\ db' = h.db
             /\ startCalls' = startCalls \o h.calls
    /\ LoopOrAdvance(Tail(todo))
    /\ UNCHANGED <<my_files_builder, pipeStore, apiStore, missed, fs, panicked, buildCalls>>
    /\ StartupFrame
    /\ ServerFrame

\* lib.rs:194-196,202-204  my_files.get_all_files_from_db()
GradeStart ==
    /\ AtStage("grade") /\ sub = "idle" /\ ~panicked
    /\ \E ok \in Outcomes :
          LET q == get_all_files_from_db(db, ok)
          IN /\ LoopOrAdvance(grade_targets(q.files))
             /\ startCalls' = Append(startCalls, Call("get_all_files_from_db", <<>>, q))
    /\ UNCHANGED <<my_files_builder, pipeStore, apiStore, missed, fs, db, panicked, buildCalls>>
    /\ StartupFrame
    /\ ServerFrame

\* lib.rs:197-200  my_files.update_grade(file_path, tidy_algo)
GradeFile ==
    /\ AtStage("grade") /\ sub = "loop" /\ ~panicked
    /\ \E ok \in Outcomes :
          LET g == update_grade(db, Head(todo).path, ok)
          IN /\ db' = g.db
             /\ startCalls' = Append(startCalls, Call("update_grade", Head(todo).path, g))
    /\ LoopOrAdvance(Tail(todo))
    /\ UNCHANGED <<my_files_builder, pipeStore, apiStore, missed, fs, panicked, buildCalls>>
    /\ StartupFrame
    /\ ServerFrame

\* lib.rs:80-88, server.rs:74  the server builds its own store instance.
BuildServer ==
    /\ AtStage("build_server") /\ ~panicked
    /\ ServerBuilder_build(RunServerBuilder(my_files_builder[1])) # <<>>
    /\ buildCalls' = buildCalls \cup {RunServerBuilder(my_files_builder[1]).my_files_builder}
    /\ \E ok \in Outcomes :
          IF ok
          THEN /\ apiStore' = ServerBuilder_build(RunServerBuilder(my_files_builder[1]))
               /\ stage' = stage + 1
               /\ panicked' = FALSE
          ELSE /\ panicked' = TRUE
               /\ UNCHANGED <<apiStore, stage>>
    /\ UNCHANGED <<sub, todo, startCalls, my_files_builder, pipeStore, missed, fs, db>>
    /\ StartupFrame
    /\ ServerFrame

\* lib.rs:94-96
SpawnServer ==
    /\ AtStage("spawn_server") /\ ~panicked
    /\ stage' = stage + 1
    /\ srvpc' = "spawned"
    /\ UNCHANGED <<sub, todo, startCalls, my_files_builder, pipeStore, apiStore, missed>>
    /\ UNCHANGED buildCalls
    /\ UNCHANGED <<fs, db, panicked, srvconf, listenAddr>>
    /\ StartupFrame

\* lib.rs:99-114
SpawnHub ==
    /\ AtStage("spawn_hub") /\ ~panicked
    /\ stage' = stage + 1
    /\ UNCHANGED <<sub, todo, startCalls, my_files_builder, pipeStore, apiStore, missed>>
    /\ UNCHANGED buildCalls
    /\ UNCHANGED <<fs, db, panicked>>
    /\ StartupFrame
    /\ ServerFrame

\* lib.rs:116-123
SpawnWatcher ==
    /\ AtStage("spawn_watcher") /\ ~panicked
    /\ stage' = stage + 1
    /\ UNCHANGED <<sub, todo, startCalls, my_files_builder, pipeStore, apiStore, missed>>
    /\ UNCHANGED buildCalls
    /\ UNCHANGED <<fs, db, panicked>>
    /\ StartupFrame
    /\ ServerFrame

\* A file is created or removed after the listing and before any watcher
\* runs: nothing observes the change.
EarlyChange ==
    /\ StageDone("list") /\ ~StageDone("spawn_watcher")
    /\ missed < MaxMissed
    /\ \E p \in Paths, file \in FileStates \cup {<<>>} :
          /\ Exists(fs, p) # (file # <<>>)
          /\ fs' = [fs EXCEPT ![p] = file]
    /\ missed' = missed + 1
    /\ UNCHANGED <<stage, sub, todo, startCalls, my_files_builder, pipeStore, apiStore>>
    /\ UNCHANGED buildCalls
    /\ UNCHANGED <<db, panicked>>
    /\ StartupFrame
    /\ ServerFrame

\* The listing and grading phase alone, over a backend that may fail.
ListingInit == StartBase /\ backendReliable = FALSE
ListingNext ==
    \/ MakeBuilder \/ BuildStore
    \/ ListStart \/ ListFile \/ GradeStart \/ GradeFile
ListingSpec == ListingInit /\ [][ListingNext]_vars

\* The builders as any caller inside the crate can use them: each call is
\* one the type of its receiver has.
BuilderFrame ==
    /\ UNCHANGED <<hubvars, pipevars, apivars, srvvars>>
    /\ UNCHANGED <<stage, sub, todo, startCalls, missed>>

\* MyFilesBuilder::new()
CallNew ==
    /\ my_files_builder' = <<MyFilesBuilder_new>>
    /\ UNCHANGED <<pipeStore, apiStore, buildCalls>>
    /\ BuilderFrame

\* .configure(c)
CallConfigure ==
    /\ my_files_builder # <<>>
    /\ CanConfigure(my_files_builder[1])
    /\ \E c \in MyFilesConfigurations :
          my_files_builder' = <<configure(my_files_builder[1], c)>>
    /\ UNCHANGED <<pipeStore, apiStore, buildCalls>>
    /\ BuilderFrame

\* .seal()
CallSeal ==
    /\ my_files_builder # <<>>
    /\ CanSeal(my_files_builder[1])
    /\ my_files_builder' = <<seal(my_files_builder[1])>>
    /\ UNCHANGED <<pipeStore, apiStore, buildCalls>>
    /\ BuilderFrame

\* lib.rs:62  my_files_builder.build() on a builder the caller holds
CallBuild ==
    /\ my_files_builder # <<>>
    /\ MyFilesBuilder_build(my_files_builder[1]) # <<>>
    /\ buildCalls' = buildCalls \cup {my_files_builder[1]}
    /\ pipeStore' = MyFilesBuilder_build(my_files_builder[1])
    /\ UNCHANGED <<my_files_builder, apiStore>>
    /\ BuilderFrame

\* server.rs:50-75  ServerBuilder::new(), then or not .my_files_builder(b)
\* with a builder of the sealed type, then .build(..)
CallServerBuild ==
    /\ \E sb \in {ServerBuilder_new}
                  \cup { ServerBuilder_my_files_builder(ServerBuilder_new, b) :
                           b \in { x \in { my_files_builder[i] : i \in DOMAIN my_files_builder } :
                                     CanBuild(x) } } :
          /\ ServerBuilder_build(sb) # <<>>
          /\ buildCalls' = buildCalls \cup {sb.my_files_builder}
          /\ apiStore' = ServerBuilder_build(sb)
    /\ UNCHANGED <<my_files_builder, pipeStore>>
    /\ BuilderFrame

BuilderInit ==
    /\ StartBase
    /\ backendReliable = TRUE
    /\ fs = [p \in Paths |-> <<>>]
    /\ db = <<>>
BuilderNext == CallNew \/ CallConfigure \/ CallSeal \/ CallBuild \/ CallServerBuild
BuilderSpec == BuilderInit /\ [][BuilderNext]_vars

\* The whole of run() from its first line, over a backend that does not
\* fail, with a query, the hub task and a removal once they can run.
StartInit ==
    /\ StartBase
    /\ backendReliable = TRUE
    /\ \A p \in Paths : fs[p] \in {<<>>, NewestFile}
    /\ \E o \in AscendingOrders :
          /\ { o[i] : i \in DOMAIN o } \subseteq Existing(fs)
          /\ db = Graded(fs, o)
StartNext ==
    \/ MakeBuilder \/ BuildStore
    \/ ListStart \/ ListFile \/ GradeStart \/ GradeFile
    \/ BuildServer \/ SpawnServer \/ SpawnHub \/ SpawnWatcher
    \/ EarlyChange
    \/ ServerResolve \/ ServerBind
    \/ Start \/ Lock \/ Query \/ HubSleep \/ FsRemove \/ HandleRemove
StartSpec == StartInit /\ [][StartNext]_vars

\* ------------------------------------------------------ pipeline: properties
\* The step in which the consumer loop takes a notification of this kind off
\* the channel and handles it.
HandleStep(kind) ==
    /\ queue # <<>>
    /\ queue' = Tail(queue)
    /\ Head(queue).kind = kind

Handled(kind) == lastEvent # <<>> /\ lastEvent[1].kind = kind

\* The step in which the consumer makes the second store call of the
\* notification it is handling.
RescoreStep == pending # <<>> /\ pending' = <<>>

Mutations == {"add_file_to_db", "update_file_last_modified", "update_file_path",
              "update_file_hash"}
SameAttributes(r1, r2) ==
    /\ r1.size = r2.size
    /\ r1.content_signature = r2.content_signature
    /\ r1.last_modified = r2.last_modified

\* C4: for every handled Created, MetadataChanged, ContentChanged or Renamed
\* event the store mutation is immediately followed, within the handling of
\* that event, by update_grade for the path the action affected (the new path
\* of a rename); a Removed event triggers no rescoring.
C4_MutationThenRescore ==
    pending = <<>> =>
        /\ \A i \in 1..Len(calls) :
              (calls[i].op \in Mutations /\ calls[i].res = "Ok") =>
                 /\ i < Len(calls)
                 /\ calls[i + 1].op = "update_grade"
                 /\ calls[i + 1].path = (IF lastEvent[1].kind = "Name"
                                         THEN lastEvent[1].paths[2]
                                         ELSE lastEvent[1].paths[1])
        /\ Handled("Remove") => \A i \in 1..Len(calls) : calls[i].op # "update_grade"

\* C5: handling a rename (a, b) with a tracked and b not leaves no record
\* under a and one record under b carrying a's attributes, and the rescoring
\* call that follows is keyed on the new path b.
C5_RenameRescoresNewPath ==
    [][ /\ (/\ HandleStep("Name")
            /\ Len(Head(queue).paths) = 2
            /\ HasPath(db, Head(queue).paths[1])
            /\ ~HasPath(db, Head(queue).paths[2])
            /\ ~panicked'
            /\ calls'[1].res = "Ok")
           => LET a == Head(queue).paths[1]
                  b == Head(queue).paths[2]
              IN /\ ~HasPath(db', a)
                 /\ Cardinality(RowsAt(db', b)) = 1
                 /\ SameAttributes(RecordOf(db', b), RecordOf(db, a))
                 /\ pending' # <<>>
        /\ (/\ RescoreStep
            /\ Handled("Name")
            /\ calls[1].res = "Ok")
           => LET a == lastEvent[1].paths[1]
                  b == lastEvent[1].paths[2]
              IN /\ ~HasPath(db', a)
                 /\ Cardinality(RowsAt(db', b)) = 1
                 /\ SameAttributes(RecordOf(db', b), RecordOf(db, b))
                 /\ Len(calls') = 2
                 /\ calls'[2].op = "update_grade"
                 /\ calls'[2].path = b ]_vars

\* C6: no single notification stops the consumer loop: whatever was put on
\* the channel, the loop is still running and goes on to the next event.
C6_LoopNeverStops == ~panicked

\* C7: handling a Removed notification for a path that exists on the
\* filesystem leaves the store unchanged (no store call is made); a record
\* disappears only when the path is absent, and then only that path's.
C7_RemoveOnlyAbsent ==
    [][ HandleStep("Remove") =>
          LET p == Head(queue).paths[1]
          IN /\ Exists(fs, p) => (db' = db /\ calls' = <<>>)
             /\ db' # db => (/\ ~Exists(fs, p)
                             /\ HasPath(db, p)
                             /\ db' = SelectSeq(db, LAMBDA r : r.path # p)) ]_vars

C7_Witness ==
    /\ Handled("Remove")
    /\ Exists(fs, lastEvent[1].paths[1])
    /\ HasPath(db, lastEvent[1].paths[1])
    /\ calls = <<>>

\* C8: handling a Created notification for a path that does not exist on the
\* filesystem leaves the store unchanged (no store call is made); a record
\* is added only when the path is present, and then only that path's.
C8_AddOnlyPresent ==
    [][ HandleStep("Create") =>
          LET p == Head(queue).paths[1]
          IN /\ ~Exists(fs, p) => (db' = db /\ calls' = <<>>)
             /\ db' # db => (/\ Exists(fs, p)
                             /\ ~HasPath(db, p)
                             /\ Len(db') = Len(db) + 1
                             /\ SubSeq(db', 1, Len(db)) = db
                             /\ db'[Len(db')].path = p) ]_vars

C8_Witness ==
    /\ Handled("Create")
    /\ ~Exists(fs, lastEvent[1].paths[1])
    /\ ~HasPath(db, lastEvent[1].paths[1])
    /\ calls = <<>>

\* C9: handling a content-change event for a tracked path p changes only p's
\* content_signature and tidy_score: p's path, size and last_modified, and
\* every field of every other record, are unchanged.
C9_ContentChangeFrame ==
    [][ \A p \in Paths :
          (/\ \/ HandleStep("Data") /\ Head(queue).paths[1] = p
              \/ RescoreStep /\ Handled("Data") /\ pending = <<p>>
           /\ HasPath(db, p)) =>
             /\ Len(db') = Len(db)
             /\ \A i \in 1..Len(db) :
                   /\ db'[i].path = db[i].path
                   /\ db'[i].size = db[i].size
                   /\ db'[i].last_modified = db[i].last_modified
                   /\ db[i].path # p => db'[i] = db[i] ]_vars

\* A content change of p was handled to the end while the store held the
\* record of another file q: p's signature follows the file, the size recorded
\* for p does not, and q's record is still the one the listing left.
C9_Witness ==
    /\ Handled("Data")
    /\ pending = <<>>
    /\ LET p == lastEvent[1].paths[1]
       IN /\ Len(calls) = 2 /\ calls[1].res = "Ok" /\ calls[2].res = "Ok"
          /\ HasPath(db, p) /\ Exists(fs, p)
          /\ RecordOf(db, p).content_signature = SignatureOf(fs[p][1].content)
          /\ RecordOf(db, p).size # SizeOf(fs[p][1].content)
          /\ \E q \in Paths \ {p} :
                /\ HasPath(db, q) /\ fs[q] = NewestFile
                /\ RecordOf(db, q) = Graded(fs, <<q>>)[1]
                /\ RecordOf(db, q).content_signature # RecordOf(db, p).content_signature

\* C10: duplicate notifications are idempotent: with the filesystem
\* unchanged, handling the same Created (or Removed) notification a second
\* time leaves the store as the first handling left it, the second add
\* failing with DuplicateKey and the second remove with NotFound; a handled
\* event whose call fails that way changes no record, and the store never
\* holds more than one record per path.
C10_DuplicateIdempotent ==
    /\ [](/\ \A p \in Paths : Cardinality(RowsAt(db, p)) <= 1
          /\ \A p \in Paths :
                LET add1 == safe_add_file_to_db(db, fs, p, TRUE)
                    add2 == safe_add_file_to_db(add1.db, fs, p, TRUE)
                    rem1 == safe_remove_file_from_db(db, fs, p, TRUE)
                    rem2 == safe_remove_file_from_db(rem1.db, fs, p, TRUE)
                IN /\ add2.db = add1.db
                   /\ add1.calls # <<>> =>
                         (Len(add2.calls) = 1 /\ add2.calls[1].res = "DuplicateKey")
                   /\ rem2.db = rem1.db
                   /\ rem1.calls # <<>> =>
                         (Len(rem2.calls) = 1 /\ rem2.calls[1].res = "NotFound"))
    /\ [][ (HandleStep("Create") \/ HandleStep("Remove")) =>
             /\ (calls' # <<>> /\ calls'[1].res \in {"DuplicateKey", "NotFound"}) => db' = db
             /\ (HandleStep("Create") /\ HasPath(db, Head(queue).paths[1])) => db' = db
             /\ (HandleStep("Remove") /\ ~HasPath(db, Head(queue).paths[1])) => db' = db ]_vars

C10_Witness ==
    /\ Handled("Create")
    /\ calls # <<>> /\ calls[1].res = "DuplicateKey"
    /\ Cardinality(RowsAt(db, lastEvent[1].paths[1])) = 1

\* C20: when the timestamp read (get_last_access) of a metadata-only modify
\* event fails, the handler makes no store call, leaves every record unchanged
\* and the loop goes on; when the read succeeds it calls
\* update_file_last_modified with the timestamp read and then update_grade for
\* that path, the rescoring being attempted whatever the update returned.
C20_MetadataHandling ==
    [][ /\ HandleStep("Metadata") =>
              LET p == Head(queue).paths[1]
              IN /\ ~panicked'
                 /\ get_last_access(fs, p) = <<>> =>
                       (calls' = <<>> /\ db' = db /\ pending' = <<>>)
                 /\ get_last_access(fs, p) # <<>> =>
                       /\ Len(calls') = 1
                       /\ calls'[1].op = "update_file_last_modified" /\ calls'[1].path = p
                       /\ pending' = <<p>>
                       /\ (calls'[1].res = "Ok" =>
                              RecordOf(db', p).last_modified = get_last_access(fs, p)[1])
        /\ (RescoreStep /\ Handled("Metadata")) =>
              /\ pending = <<lastEvent[1].paths[1]>>
              /\ Len(calls') = 2
              /\ calls'[1] = calls[1]
              /\ calls'[2].op = "update_grade" /\ calls'[2].path = pending[1]
              /\ ~panicked' ]_vars

C20_Witness ==
    /\ Handled("Metadata")
    /\ pending = <<>>
    /\ Len(calls) = 2
    /\ calls[1].res # "Ok"
    /\ calls[2].op = "update_grade"

\* C14: the consumer loop handles notifications in exactly the order the
\* watcher sent them, one at a time: a notification is taken off the channel
\* only when the store calls of the one before are all made, the one taken
\* is the oldest on the channel, its rescoring call is the next store call
\* after its mutation, and the watcher only ever appends behind the waiting
\* ones, so no notification is handled twice or passed over.
C14_InOrderOneAtATime ==
    [][ /\ (lastEvent' # lastEvent \/ panicked' # panicked \/ Len(queue') < Len(queue)) =>
               /\ pending = <<>>
               /\ queue # <<>>
               /\ queue' = Tail(queue)
               /\ lastEvent' = <<Head(queue)>>
               /\ sent' = sent
               /\ \E ok \in BOOLEAN :
                     LET h == handle_file_events(db, fs, Head(queue), ok)
                     IN /\ db' = h.db /\ calls' = h.calls
                        /\ panicked' = h.panic /\ pending' = h.grade
        /\ ((db' # db \/ calls' # calls \/ pending' # pending) /\ queue' = queue) =>
               /\ pending # <<>>
               /\ pending' = <<>>
               /\ UNCHANGED <<lastEvent, sent, panicked>>
               /\ \E ok \in BOOLEAN :
                     LET h == rescore(db, calls, pending[1], ok)
                     IN db' = h.db /\ calls' = h.calls
        /\ (Len(queue') >= Len(queue) /\ queue' # queue) =>
               /\ Len(queue') = Len(queue) + 1
               /\ SubSeq(queue', 1, Len(queue)) = queue
               /\ sent' = sent + 1
               /\ UNCHANGED <<db, calls, lastEvent, pending>> ]_vars

\* Both store calls of a notification were made while the next one waited
\* on the channel.
C14_Witness ==
    /\ Handled("Data")
    /\ pending = <<>>
    /\ Len(calls) = 2
    /\ Len(queue) = 1
    /\ queue[1] # lastEvent[1]
    /\ sent = 2

\* C15: eventual convergence: once the filesystem has stopped changing and
\* every delivered notification has been handled, the set of paths in the
\* store equals the set of files that exist on the filesystem.
C15_Converged ==
    (queue = <<>> /\ pending = <<>> /\ ~panicked) => PathsOf(db) = Existing(fs)

\* C13: the hub retry task and the consumer loop progress independently: in
\* every interleaving, whatever the hub answers, a notification placed on the
\* watcher channel still has a running consumer to handle it, and no hub
\* attempt or backoff wait reads or mutates the store or the channel.
HubStep == hubvars' # hubvars
C13_HubAndConsumerIndependent ==
    [][ /\ HubStep => UNCHANGED pipevars
        /\ queue' # <<>> => ~panicked' ]_vars

\* C11: while the consumer handles Created and Removed events and a query
\* reads concurrently, every record the read returns was in the store at some
\* point between the start and the end of that read: no path that was never
\* added, and none whose removal completed before the read began.
C11_ReadReturnsLiveRecords ==
    \A r \in Readers :
        rpc[r] = "queried" => Rows(snapshot[r]) \subseteq window[r]

\* A record was removed while the read held the lock, and the read does not
\* return it.
C11_Witness ==
    \E r \in Readers :
        /\ rpc[r] = "queried"
        /\ Handled("Remove")
        /\ window[r] # {}
        /\ snapshot[r] = <<>>

\* C12: the pipeline's store instance and the query API's are guarded by the
\* same mutual exclusion: while a query-API read holds the store lock, no
\* pipeline mutation of the records takes place.
C12_ReadLockExcludesMutation ==
    [][ mutex = "held" => db' = db ]_vars

\* C16: a request for N files sorted by key k is answered with exactly
\* min(N, number of records) records, all taken from the list_all snapshot,
\* in non-increasing order of size when k is "size" and of last_modified when
\* k is "last_update" (whatever the case of the letters), any other k
\* counting as "size"; every returned record ranks at least as high as every
\* record left out.
RankField(k) == IF to_lowercase(k) = STR_last_update THEN "last_modified" ELSE "size"
Rank(rec, k) == KeyOf(rec, RankField(k))
C16_SortedTopN ==
    \A r \in Readers :
        rpc[r] = "responded" =>
            LET n == response[1].number_of_files
                k == response[1].sort_by
                files == response[1].files
                from == snapshot[r]
            IN /\ Len(files) = IF n < Len(from) THEN n ELSE Len(from)
               /\ Rows(files) \subseteq Rows(from)
               /\ Cardinality(Rows(files)) = Len(files)
               /\ \A i, j \in 1..Len(files) : i < j => Rank(files[i], k) >= Rank(files[j], k)
               /\ \A x \in Rows(from) \ Rows(files), y \in Rows(files) :
                      Rank(y, k) >= Rank(x, k)

\* One of two records was asked for by "last_update" in other letter case,
\* and the answer is the later-modified record, which the store listed last.
C16_Witness ==
    \E r \in Readers :
        /\ rpc[r] = "responded"
        /\ Len(snapshot[r]) = MaxPaths
        /\ response[1].number_of_files = 1
        /\ response[1].sort_by # STR_last_update
        /\ to_lowercase(response[1].sort_by) = STR_last_update
        /\ snapshot[r][1].last_modified < snapshot[r][Len(snapshot[r])].last_modified
        /\ response[1].files = <<snapshot[r][Len(snapshot[r])]>>

\* ------------------------------------------------------- startup: properties
\* A configuration and a connection handle were supplied to b, and b was
\* sealed.
FullySupplied(b) == b.configuration # <<>> /\ b.connection_manager /\ b.sealed

\* C17: no store instance is built half-configured: build is only ever called
\* on a builder that had been given its configuration and its connection
\* handle and had been sealed; every store instance in use, the pipeline's and
\* the query API's, was built from such a builder, and no store call is made
\* before the instance it goes through is built.
C17_StoresBuiltFromSealedBuilder ==
    /\ \A b \in buildCalls : FullySupplied(b)
    /\ pipeStore # <<>> => FullySupplied(pipeStore[1].from)
    /\ apiStore # <<>> => FullySupplied(apiStore[1].from)
    /\ (startCalls # <<>> \/ lastEvent # <<>>) => pipeStore # <<>>
    /\ (\E r \in Readers : rpc[r] # "idle") => apiStore # <<>>

StartCall(op, p, res) ==
    \E i \in 1..Len(startCalls) :
        startCalls[i].op = op /\ startCalls[i].path = p /\ startCalls[i].res = res
Scored(rows, p) == RecordOf(rows, p).tidy_score = <<Evaluate(RecordOf(rows, p), RuleSet)>>

\* C18: once list_directories and update_all_grades are over, every record
\* present in the store has been rescored by the rule engine: update_grade was
\* called for it and succeeded, and it carries the score the rule engine gives
\* its attributes.
C18_Original ==
    StageDone("grade") =>
        \A p \in PathsOf(db) : StartCall("update_grade", p, "Ok") /\ Scored(db, p)

\* C19: the listing and the grading are over before the query server is
\* started, before the hub task is spawned and before the watcher is started:
\* until then no query is served, the hub task does nothing and no
\* notification is sent or handled; and a file change made after the listing
\* and before the watcher starts produces no notification.
ListingOver == StageDone("list") /\ StageDone("grade")
Quiet ==
    /\ queue = <<>> /\ sent = 0 /\ lastEvent = <<>>
    /\ \A r \in Readers : rpc[r] = "idle"
    /\ waits = <<>> /\ results = <<>> /\ hubpc = "sleep"
C19_ListingBeforeServices ==
    [][ /\ ~ListingOver' => Quiet'
        /\ (StageDone("spawn_server")' \/ StageDone("spawn_hub")'
              \/ StageDone("spawn_watcher")') => ListingOver'
        /\ (fs' # fs /\ ~StageDone("spawn_watcher")) =>
              (queue = <<>> /\ UNCHANGED <<queue, sent>>) ]_vars

\* A file created after the listing and before the watcher started is on
\* disk, no notification was ever sent, the store does not track it, and a
\* query has been served.
C19_Witness ==
    /\ ConsumerRunning
    /\ missed > 0 /\ sent = 0 /\ queue = <<>>
    /\ \E p \in Paths : Exists(fs, p) /\ ~HasPath(db, p)
    /\ \E r \in Readers : rpc[r] = "queried"
\* C21: when the configured listen address does not parse as a socket
\* address, the started server task falls back to a default address and
\* goes on to serve; it is never ended by the invalid address.
InvalidConfiguredAddress == parse_socket_addr(ConfiguredAddress(srvconf)) = <<>>
C21_InvalidAddressFallsBack ==
    (InvalidConfiguredAddress /\ srvpc # "spawned") =>
        /\ listenAddr # <<>>
        /\ ~(srvpc = "panicked" /\ listenAddr = <<>>)

====
